---- MODULE Spec2Model ----
(***************************************************************************)
(* Model of checker.py: the directory walk, the exclusion filter, the      *)
(* per-file analysis (read, remote call, JSON parsing, CodeChange          *)
(* validation), the collection loop of fetch_updates and the report of     *)
(* main.                                                                   *)
(*                                                                         *)
(* Python strings that the code inspects character by character (paths,    *)
(* file names, suffixes) are sequences of one-character strings, so that   *)
(* startswith, endswith, "in" and os.path.basename are computed as Python  *)
(* computes them.                                                          *)
(***************************************************************************)
EXTENDS Integers, Sequences, FiniteSets, TLC

(***************************************************************************)
(* Bounds of the model.                                                    *)
(***************************************************************************)
\* largest number of files on the disk in the tree-shaped inputs (InitTree)
MaxTreeFiles == 2
\* largest number of files on the disk in the responder-shaped inputs (Init)
MaxFiles == 2

(***************************************************************************)
(* Python string primitives over character sequences.                      *)
(***************************************************************************)
\* str.startswith(prefix)
StartsWith(s, p) ==
    /\ Len(p) <= Len(s)
    /\ SubSeq(s, 1, Len(p)) = p

\* str.endswith(suffix) for one suffix
EndsWith(s, p) ==
    /\ Len(p) <= Len(s)
    /\ SubSeq(s, Len(s) - Len(p) + 1, Len(s)) = p

\* the "sub in s" substring test of Python
Contains(s, sub) ==
    \E k \in 0..(Len(s) - Len(sub)) : SubSeq(s, k + 1, k + Len(sub)) = sub

\* position of the last "/" of a path, 0 when there is none
LastSlash(path) ==
    LET idx == {k \in 1..Len(path) : path[k] = "/"}
    IN  IF idx = {} THEN 0 ELSE CHOOSE k \in idx : \A j \in idx : j <= k

\* os.path.basename: what follows the last "/"
Basename(path) == SubSeq(path, LastSlash(path) + 1, Len(path))

\* os.path.join(root, name) for a root that does not end with "/"
PathJoin(root, name) == root \o <<"/">> \o name

(***************************************************************************)
(* The literals of the filter of fetch_updates.                            *)
(***************************************************************************)
ExcludedSuffixes ==
    { <<".","c","s","s">>, <<".","j","s","o","n">>, <<".","m","d">>,
      <<".","s","v","g">>, <<".","i","c","o">>, <<".","m","j","s">>,
      <<".","g","i","t","i","g","n","o","r","e">>, <<".","e","n","v">>,
      <<".","l","o","c","k">> }

GitMarker == <<".","g","i","t","/">>

NodeModulesMarker == <<"n","o","d","e","_","m","o","d","u","l","e","s","/">>

\* the condition of the "continue" of the filter
Excluded(filepath) ==
    \/ StartsWith(Basename(filepath), <<".">>)
    \/ \E suf \in ExcludedSuffixes : EndsWith(filepath, suf)
    \/ Contains(filepath, GitMarker)
    \/ Contains(filepath, NodeModulesMarker)

(***************************************************************************)
(* The disk.  A file entry is [dir, name, fate]: dir is the sequence of    *)
(* the directory names below the analysed directory, name the file name,   *)
(* fate what reading the file and asking the remote model about it gives.  *)
(* The variable disk lists the entries in the order os.scandir reports     *)
(* them.                                                                   *)
(***************************************************************************)
RootDir == <<>>

\* the directories of a disk: every prefix of the dir of an entry
DirsOf(d) ==
    {RootDir} \cup
    UNION {{SubSeq(d[k].dir, 1, n) : n \in 0..Len(d[k].dir)} : k \in DOMAIN d}

RECURSIVE Dedup(_)
\* a sequence without its repeated elements, first occurrences kept
Dedup(s) ==
    IF s = <<>> THEN <<>>
    ELSE LET front == Dedup(SubSeq(s, 1, Len(s) - 1))
             last  == s[Len(s)]
         IN  IF \E k \in DOMAIN front : front[k] = last
             THEN front ELSE Append(front, last)

\* the path os.walk reports for the directory dir below top
RECURSIVE DirPath(_, _)
DirPath(top, dir) ==
    IF dir = <<>> THEN top
    ELSE PathJoin(DirPath(top, SubSeq(dir, 1, Len(dir) - 1)), dir[Len(dir)])

\* the entries of the disk lying directly in dir, in scandir order
FilesIn(d, dir) == SelectSeq(d, LAMBDA e : e.dir = dir)

\* the sub-directories of dir, in scandir order
SubDirsOf(d, dir) ==
    LET below == SelectSeq(d, LAMBDA e : /\ Len(e.dir) > Len(dir)
                                         /\ SubSeq(e.dir, 1, Len(dir)) = dir)
    IN  Dedup([k \in DOMAIN below |-> SubSeq(below[k].dir, 1, Len(dir) + 1)])

RECURSIVE Walk(_, _, _, _)
RECURSIVE WalkAll(_, _, _, _)
\* os.walk(top) restricted to what the loop of get_all_files_recursively
\* uses: the files of dir first, then each sub-directory in turn.  os.walk
\* is called without onerror, so a directory whose listing fails is skipped
\* silently: nothing is reported for it and nothing is raised.
Walk(d, unreadable, top, dir) ==
    IF dir \in unreadable THEN <<>>
    ELSE LET here == FilesIn(d, dir)
         IN  [k \in DOMAIN here |-> PathJoin(DirPath(top, dir), here[k].name)]
             \o WalkAll(d, unreadable, top, SubDirsOf(d, dir))

WalkAll(d, unreadable, top, dirs) ==
    IF dirs = <<>> THEN <<>>
    ELSE Walk(d, unreadable, top, dirs[1])
         \o WalkAll(d, unreadable, top, SubSeq(dirs, 2, Len(dirs)))

\* get_all_files_recursively that lists the directories that cannot be listed
get_all_files_recursively_listall(d, unreadable, root_directory) ==
    Walk(d, {}, root_directory, RootDir)

\* get_all_files_recursively(root_directory): the list of the file paths
get_all_files_recursively(d, unreadable, root_directory) ==
    Walk(d, unreadable, root_directory, RootDir)

\* the path of a disk entry below top
EntryPath(top, e) == PathJoin(DirPath(top, e.dir), e.name)

\* the fate of the file a path names
FateOf(d, top, path) ==
    LET k == CHOOSE k \in DOMAIN d : EntryPath(top, d[k]) = path
    IN  d[k].fate

(***************************************************************************)
(* JSON values.  A value is [type, val]: type is "string", "true",         *)
(* "false", "null" or "absent" (the key is not in the object), val the     *)
(* characters of a string.  A document is [type, members]: an object with  *)
(* its members, or an array, which has none.                               *)
(***************************************************************************)
Keys == {"modern", "path", "old_content", "new_content", "reason", "extra"}

\* the fields of class CodeChange
RequiredFields == {"path", "old_content", "new_content", "reason"}

Absent == [type |-> "absent", val |-> <<>>]
JTrue == [type |-> "true", val |-> <<>>]
JFalse == [type |-> "false", val |-> <<>>]
JNull == [type |-> "null", val |-> <<>>]
JStr(chars) == [type |-> "string", val |-> chars]

\* the truth value Python gives a parsed JSON value (None when absent)
Truthy(v) ==
    \/ v.type = "true"
    \/ v.type = "string" /\ v.val # <<>>

\* data.get(key) on a parsed document: an array has no get, which raises
HasGet(doc) == doc.type = "object"
DictGet(doc, key) == doc.members[key]

\* Validates with only the path field checked
Validates_pathOnly(doc) == doc.members["path"].type = "string"

\* CodeChange(**data) raises ValidationError unless every field is there
\* and is a string; keys that are not fields are ignored
Validates(doc) == \A f \in RequiredFields : doc.members[f].type = "string"

\* CodeChange with old_content and new_content exchanged
CodeChange_swapped(doc) ==
    [path        |-> doc.members["path"].val,
     old_content |-> doc.members["new_content"].val,
     new_content |-> doc.members["old_content"].val,
     reason      |-> doc.members["reason"].val]

\* the object CodeChange(**data) builds
CodeChange(doc) ==
    [path        |-> doc.members["path"].val,
     old_content |-> doc.members["old_content"].val,
     new_content |-> doc.members["new_content"].val,
     reason      |-> doc.members["reason"].val]

\* ValidateResponse with the CodeChange validation before the "modern" test
ValidateResponse_validateFirst(text) ==
    IF ~text.wellformed
    THEN [ret |-> <<>>, diag |-> "Error parsing Gemini JSON response"]
    ELSE IF ~HasGet(text.doc)
    THEN [ret |-> <<>>, diag |-> "Error analyzing with Gemini"]
    ELSE IF ~Validates(text.doc)
    THEN [ret |-> <<>>, diag |-> "Invalid CodeChange format"]
    ELSE IF Truthy(DictGet(text.doc, "modern"))
    THEN [ret |-> <<>>, diag |-> ""]
    ELSE [ret |-> <<CodeChange(text.doc)>>, diag |-> ""]

\* lines 80 to 101 of analyze_file_with_llm on a response text: the value
\* returned (<<>> is None, <<c>> the CodeChange c) and the diagnostic
\* printed ("" when none is)
ValidateResponse(text) ==
    IF ~text.wellformed
    THEN [ret |-> <<>>, diag |-> "Error parsing Gemini JSON response"]
    ELSE IF ~HasGet(text.doc)
    THEN [ret |-> <<>>, diag |-> "Error analyzing with Gemini"]
    ELSE IF Truthy(DictGet(text.doc, "modern"))
    THEN [ret |-> <<>>, diag |-> ""]
    ELSE IF ~Validates(text.doc)
    THEN [ret |-> <<>>, diag |-> "Invalid CodeChange format"]
    ELSE [ret |-> <<CodeChange(text.doc)>>, diag |-> ""]

(***************************************************************************)
(* The inputs: file names, directories, responses of the remote model.     *)
(***************************************************************************)
\* a JSON object with the given values of its keys
Obj(m, p, o, n, r, x) ==
    [type |-> "object",
     members |-> [k \in Keys |->
        CASE k = "modern" -> m
          [] k = "path" -> p
          [] k = "old_content" -> o
          [] k = "new_content" -> n
          [] k = "reason" -> r
          [] k = "extra" -> x]]

\* a JSON array
Arr == [type |-> "array", members |-> [k \in Keys |-> Absent]]

ModelPath == JStr(<<"o","l","d",".","j","s">>)
OldText == JStr(<<"v">>)
NewText == JStr(<<"l">>)
Why == JStr(<<"u">>)

Text(doc) == [wellformed |-> TRUE, doc |-> doc]
NotJSON == [wellformed |-> FALSE, doc |-> Arr]

\* what happens to a file: whether open/read succeeds, whether the remote
\* call raises, and the text of the response
Responds(text) == [readable |-> TRUE, raises |-> FALSE, text |-> text]
Unreadable == [readable |-> FALSE, raises |-> FALSE, text |-> NotJSON]
CallRaises == [readable |-> TRUE, raises |-> TRUE, text |-> NotJSON]

ModernOnly == Responds(Text(Obj(JTrue, Absent, Absent, Absent, Absent, Absent)))
ModernAndFields == Responds(Text(Obj(JTrue, ModelPath, OldText, NewText, Why, Absent)))
ModernText == Responds(Text(Obj(JStr(<<"y">>), ModelPath, OldText, NewText, Why, Absent)))
FullChange == Responds(Text(Obj(Absent, ModelPath, OldText, NewText, Why, Absent)))
FullChangeExtra == Responds(Text(Obj(JFalse, ModelPath, OldText, NewText, JStr(<<"w">>), JNull)))
NoReason == Responds(Text(Obj(Absent, ModelPath, OldText, NewText, Absent, Absent)))
NullNewContent == Responds(Text(Obj(Absent, ModelPath, OldText, JNull, Why, Absent)))

Fates ==
    { Unreadable, CallRaises, Responds(NotJSON), Responds(Text(Arr)),
      ModernOnly, ModernAndFields, ModernText, FullChange, FullChangeExtra,
      NoReason, NullNewContent }

\* the fates of the tree-shaped inputs: every file of a tree has the same
TreeFates == { ModernOnly, FullChange }

N_src == <<"s","r","c">>
N_git == <<".","g","i","t">>
N_node_modules == <<"n","o","d","e","_","m","o","d","u","l","e","s">>
N_xgit == <<"x",".","g","i","t">>
N_anode_modules == <<"a","n","o","d","e","_","m","o","d","u","l","e","s">>
N_a_py == <<"a",".","p","y">>

File(dir, name) == [dir |-> dir, name |-> name]

\* the files of the responder-shaped inputs
FileUniverse ==
    { File(<<>>, N_a_py), File(<<>>, <<"o","l","d",".","j","s">>),
      File(<<>>, <<"s",".","c","s","s">>), File(<<N_src>>, <<"b",".","p","y">>) }

\* the files of the tree-shaped inputs, in the order scandir reports them
TreeUniverse ==
    << File(<<>>, N_a_py),
       File(<<>>, <<"s",".","c","s","s">>),
       File(<<>>, <<"d",".","j","s","o","n">>),
       File(<<>>, <<"R",".","m","d">>),
       File(<<>>, <<"i",".","s","v","g">>),
       File(<<>>, <<"f",".","i","c","o">>),
       File(<<>>, <<"m",".","m","j","s">>),
       File(<<>>, <<"x",".","g","i","t","i","g","n","o","r","e">>),
       File(<<>>, <<"p",".","e","n","v">>),
       File(<<>>, <<"y",".","l","o","c","k">>),
       File(<<>>, <<".","h","i","d">>),
       File(<<>>, <<"c","s","s">>),
       File(<<>>, <<"b",".","c","s","s","x">>),
       File(<<N_git>>, <<"c","o","n","f","i","g">>),
       File(<<N_node_modules>>, N_a_py),
       File(<<N_src>>, N_a_py),
       File(<<N_src, N_node_modules>>, N_a_py),
       File(<<N_xgit>>, N_a_py),
       File(<<N_anode_modules>>, N_a_py) >>

\* the directory given on the command line
Roots == { <<"p">>, <<".">> }

WithFate(e, fate) == [dir |-> e.dir, name |-> e.name, fate |-> fate]

\* the disks of the responder-shaped inputs: up to MaxFiles different files
\* in any order, each with a fate of its own
Disks ==
    LET Entries == {WithFate(e, f) : e \in FileUniverse, f \in Fates}
    IN  UNION { { d \in [1..n -> Entries] :
                    \A k, l \in 1..n :
                        (d[k].dir = d[l].dir /\ d[k].name = d[l].name) => k = l }
                : n \in 0..MaxFiles }

\* the disks of the tree-shaped inputs: up to MaxTreeFiles files of
\* TreeUniverse, all with the fate f
TreeDisks(f) ==
    UNION { { [k \in 1..n |-> WithFate(TreeUniverse[pick[k]], f)] :
                pick \in { q \in [1..n -> DOMAIN TreeUniverse] :
                             \A k, l \in 1..n : k < l => q[k] < q[l] } }
            : n \in 0..MaxTreeFiles }

(***************************************************************************)
(* The state.                                                              *)
(***************************************************************************)
VARIABLES
    directory,          \* the directory argument of main
    disk,               \* the files below it, in scandir order, with fates
    unreadable,         \* the directories whose listing fails
    pc,                 \* where the run stands
    run,                \* 1 in the first call of main, 2 in the second
    all_files,          \* fetch_updates: the enumerated paths
    i,                  \* fetch_updates: position of the for loop, from 1
    analysis_results,   \* fetch_updates: the list of CodeChange objects
    response_text,      \* analyze_file_with_llm: response.text
    response,           \* fetch_updates: <<>> for None, <<c>> for a CodeChange
    stdout,             \* the lines printed in this run
    events,             \* history: the steps taken in this run, [ev, idx]
    origin,             \* history: the loop position each result came from
    firstRun            \* history: the list the first run returned

vars == <<directory, disk, unreadable, pc, run, all_files, i, analysis_results,
          response_text, response, stdout, events, origin, firstRun>>

inputs == <<directory, disk, unreadable>>

\* a printed line; the separator lines of main are left out
Line(kind, path) == [line |-> kind, path |-> path, reason |-> <<>>, n |-> 0]

\* InitialResults with the list of the previous call kept
InitialResults_kept(previous) == previous

\* the list fetch_updates starts from
InitialResults(previous) == <<>>

\* AfterNone with "break" for "continue"
AfterNone_break(pos, n) == n + 1

\* the loop position after "if response is None: continue"
AfterNone(pos, n) == pos + 1

\* OnCallError with the call tried again
OnCallError_retry == "call"

\* where control goes when the remote call has raised: the handler returns
\* None to fetch_updates
OnCallError == "collect"

\* SetPath with the path of the response kept
SetPath_kept(code_change, filepath) == code_change

\* "response.path = filepath"
SetPath(code_change, filepath) == [code_change EXCEPT !.path = filepath]

\* SummaryLines with the enumerated files counted in the total
SummaryLines_countsFiles(results) ==
    IF results = <<>>
    THEN << Line("No files were found to be out of date.", <<>>) >>
    ELSE << Line("FILES NEEDING UPDATES:", <<>>) >>
         \o [k \in 1..(2 * Len(results)) |->
               IF k % 2 = 1
               THEN Line("File", results[(k + 1) \div 2].path)
               ELSE [line |-> "Reason", path |-> <<>>,
                     reason |-> results[k \div 2].reason, n |-> 0]]
         \o << [line |-> "Total files needing updates", path |-> <<>>,
                reason |-> <<>>, n |-> Len(all_files)] >>

\* what main prints after fetch_updates has returned
SummaryLines(results) ==
    IF results = <<>>
    THEN << Line("No files were found to be out of date.", <<>>) >>
    ELSE << Line("FILES NEEDING UPDATES:", <<>>) >>
         \o [k \in 1..(2 * Len(results)) |->
               IF k % 2 = 1
               THEN Line("File", results[(k + 1) \div 2].path)
               ELSE [line |-> "Reason", path |-> <<>>,
                     reason |-> results[k \div 2].reason, n |-> 0]]
         \o << [line |-> "Total files needing updates", path |-> <<>>,
                reason |-> <<>>, n |-> Len(results)] >>

Running ==
    /\ pc = "start"
    /\ run = 1
    /\ all_files = <<>>
    /\ i = 1
    /\ analysis_results = <<>>
    /\ response_text = NotJSON
    /\ response = <<>>
    /\ stdout = <<>>
    /\ events = <<>>
    /\ origin = <<>>
    /\ firstRun = <<>>

\* responder-shaped inputs: one readable tree, every fate
Init ==
    /\ directory = <<"p">>
    /\ disk \in Disks
    /\ unreadable = {}
    /\ Running

\* tree-shaped inputs: many names and directories, unreadable directories
InitTree ==
    /\ directory \in Roots
    /\ \E f \in TreeFates : disk \in TreeDisks(f)
    /\ unreadable \in {u \in SUBSET DirsOf(disk) : Cardinality(u) <= 1}
    /\ Running

(***************************************************************************)
(* The steps.                                                              *)
(***************************************************************************)
\* main up to the call of fetch_updates, and fetch_updates up to its loop
Main ==
    /\ pc = "start"
    /\ stdout' = << Line("Analyzing directory", directory) >>
    /\ analysis_results' = InitialResults(analysis_results)
    /\ all_files' = get_all_files_recursively(disk, unreadable, directory)
    /\ i' = 1
    /\ response_text' = NotJSON
    /\ response' = <<>>
    /\ events' = <<>>
    /\ origin' = <<>>
    /\ pc' = "loop"
    /\ UNCHANGED <<inputs, run, firstRun>>

\* one pass of the for loop up to the call of analyze_file_with_llm
Filter ==
    /\ pc = "loop"
    /\ i <= Len(all_files)
    /\ IF Excluded(all_files[i])
       THEN /\ i' = i + 1
            /\ pc' = "loop"
            /\ stdout' = stdout
       ELSE /\ i' = i
            /\ pc' = "read"
            /\ stdout' = Append(stdout, Line("Analyzing", all_files[i]))
    /\ UNCHANGED <<inputs, run, all_files, analysis_results, response_text,
                   response, events, origin, firstRun>>

\* analyze_file_with_llm: open and read the file
ReadFile ==
    /\ pc = "read"
    /\ events' = Append(events, [ev |-> "read", idx |-> i])
    /\ IF FateOf(disk, directory, all_files[i]).readable
       THEN /\ pc' = "call"
            /\ UNCHANGED <<stdout, response>>
       ELSE /\ stdout' = Append(stdout, Line("Error reading", all_files[i]))
            /\ response' = <<>>
            /\ pc' = "collect"
    /\ UNCHANGED <<inputs, run, all_files, i, analysis_results, response_text,
                   origin, firstRun>>

\* analyze_file_with_llm: model.generate_content
RemoteCall ==
    /\ pc = "call"
    /\ events' = Append(events, [ev |-> "call", idx |-> i])
    /\ IF FateOf(disk, directory, all_files[i]).raises
       THEN /\ stdout' = Append(stdout, Line("Error analyzing with Gemini", all_files[i]))
            /\ response' = <<>>
            /\ pc' = OnCallError
            /\ UNCHANGED response_text
       ELSE /\ response_text' = FateOf(disk, directory, all_files[i]).text
            /\ pc' = "validate"
            /\ UNCHANGED <<stdout, response>>
    /\ UNCHANGED <<inputs, run, all_files, i, analysis_results, origin, firstRun>>

\* analyze_file_with_llm: json.loads, the "modern" test, CodeChange(**data)
\* and the three handlers
Validate ==
    /\ pc = "validate"
    /\ events' = Append(events, [ev |-> "validate", idx |-> i])
    /\ LET out == ValidateResponse(response_text)
       IN  /\ response' = out.ret
           /\ stdout' =
                IF out.diag = "" THEN stdout
                ELSE IF out.diag = "Error parsing Gemini JSON response"
                THEN stdout \o << Line(out.diag, all_files[i]),
                                  Line("Response was", <<>>) >>
                ELSE Append(stdout, Line(out.diag, all_files[i]))
    /\ pc' = "collect"
    /\ UNCHANGED <<inputs, run, all_files, i, analysis_results, response_text,
                   origin, firstRun>>

\* the rest of the pass: skip None, else set the path and append
Collect ==
    /\ pc = "collect"
    /\ events' = Append(events, [ev |-> "collect", idx |-> i])
    /\ IF response = <<>>
       THEN /\ i' = AfterNone(i, Len(all_files))
            /\ UNCHANGED <<analysis_results, origin>>
       ELSE /\ analysis_results' =
                   Append(analysis_results, SetPath(response[1], all_files[i]))
            /\ origin' = Append(origin, i)
            /\ i' = i + 1
    /\ pc' = "loop"
    /\ UNCHANGED <<inputs, run, all_files, response_text, response, stdout, firstRun>>

\* the loop is exhausted: fetch_updates returns analysis_results
Return ==
    /\ pc = "loop"
    /\ i > Len(all_files)
    /\ pc' = "report"
    /\ UNCHANGED <<inputs, run, all_files, i, analysis_results, response_text,
                   response, stdout, events, origin, firstRun>>

\* main: the summary
Report ==
    /\ pc = "report"
    /\ stdout' = stdout \o SummaryLines(analysis_results)
    /\ pc' = "done"
    /\ UNCHANGED <<inputs, run, all_files, i, analysis_results, response_text,
                   response, events, origin, firstRun>>

\* main is called a second time, on the same disk with the same responder
Rerun ==
    /\ pc = "done"
    /\ run = 1
    /\ run' = 2
    /\ firstRun' = analysis_results
    /\ pc' = "start"
    /\ UNCHANGED <<inputs, all_files, i, analysis_results, response_text,
                   response, stdout, events, origin>>

Next ==
    \/ Main
    \/ Filter
    \/ ReadFile
    \/ RemoteCall
    \/ Validate
    \/ Collect
    \/ Return
    \/ Report
    \/ Rerun

Spec == Init /\ [][Next]_vars

SpecTree == InitTree /\ [][Next]_vars

(***************************************************************************)
(* Vocabulary of the properties.  What a response is (parsed values,       *)
(* required fields, sentinel) and what the exclusion rules are is restated *)
(* here in the specification's terms, apart from the operators that model  *)
(* json parsing, validation and the filter.  "Passed the filter" is the    *)
(* filter as the code applies it.                                          *)
(***************************************************************************)
\* the fate of the j-th enumerated file
Fate(j) == FateOf(disk, directory, all_files[j])

\* the parsed response of the j-th file
Doc(j) == Fate(j).text.doc

\* the loop of fetch_updates is past the j-th file
Past(j) == j \in 1..Len(all_files) /\ j < i

\* the j-th file passed the filter
Passed(j) == ~Excluded(all_files[j])

\* the j-th file passed the filter, was read and the remote call returned
GotResponse(j) == Passed(j) /\ Fate(j).readable /\ ~Fate(j).raises

\* the response of the j-th file parsed as a JSON object
GotObject(j) ==
    GotResponse(j) /\ Fate(j).text.wellformed /\ Doc(j).type = "object"

\* the response carries the four required string fields
FourStrings(j) ==
    /\ Doc(j).members["path"].type = "string"
    /\ Doc(j).members["old_content"].type = "string"
    /\ Doc(j).members["new_content"].type = "string"
    /\ Doc(j).members["reason"].type = "string"

\* the "modern" key of the response is true
ModernTrue(j) == Doc(j).members["modern"].type = "true"

\* the "modern" key of the response is true or another value Python takes
\* for true
ModernTruthy(j) ==
    \/ ModernTrue(j)
    \/ Doc(j).members["modern"].type = "string" /\ Doc(j).members["modern"].val # <<>>

\* the four values parsed from the response of the j-th file
Parsed(j) ==
    [path        |-> Doc(j).members["path"].val,
     old_content |-> Doc(j).members["old_content"].val,
     new_content |-> Doc(j).members["new_content"].val,
     reason      |-> Doc(j).members["reason"].val]

\* the response of the j-th file validated: it is a change, not a sentinel
Validated(j) == GotObject(j) /\ ~ModernTruthy(j) /\ FourStrings(j)

\* the positions of analysis_results that came from the j-th file
RecordsFor(j) == {k \in DOMAIN origin : origin[k] = j}

DiagnosticKinds ==
    { "Error reading", "Error analyzing with Gemini",
      "Error parsing Gemini JSON response", "Invalid CodeChange format" }

\* the diagnostics printed about the j-th file
DiagnosticsFor(j) ==
    {k \in DOMAIN stdout : stdout[k].line \in DiagnosticKinds
                           /\ stdout[k].path = all_files[j]}

\* how often the j-th file was announced and handed to analyze_file_with_llm
Announced(j) ==
    Cardinality({k \in DOMAIN stdout : stdout[k] = Line("Analyzing", all_files[j])})
Analysed(j) ==
    Cardinality({k \in DOMAIN events : events[k] = [ev |-> "read", idx |-> j]})

\* how often the remote model was called for the j-th file
CallsFor(j) ==
    Cardinality({k \in DOMAIN events : events[k] = [ev |-> "call", idx |-> j]})

RECURSIVE Components(_)
\* the components of a path: what stands between its "/"
Components(path) ==
    IF LastSlash(path) = 0 THEN <<path>>
    ELSE Append(Components(SubSeq(path, 1, LastSlash(path) - 1)), Basename(path))

\* the extension of a file name: from its last dot on, leading dots apart
Extension(name) ==
    LET dots == {k \in 2..Len(name) : name[k] = "." /\ \E l \in 1..(k - 1) : name[l] # "."}
    IN  IF dots = {} THEN <<>>
        ELSE SubSeq(name, CHOOSE k \in dots : \A l \in dots : l <= k, Len(name))

\* the exclusion rules as the specification words them
RuleExcluded(path) ==
    LET parts == Components(path)
        name  == parts[Len(parts)]
    IN  \/ name # <<>> /\ name[1] = "."
        \/ Extension(name) \in ExcludedSuffixes
        \/ \E k \in 1..(Len(parts) - 1) : parts[k] \in {N_git, N_node_modules}

\* a directory of the disk that is under an unreadable directory, or is one
Hidden(dir) == \E n \in 0..Len(dir) : SubSeq(dir, 1, n) \in unreadable

(***************************************************************************)
(* The properties.                                                         *)
(***************************************************************************)
\* C1: every enumerated path is analysed (announced with "Analyzing" and
\* handed to analyze_file_with_llm) exactly once if it matches none of the
\* exclusion rules (dot file name, excluded extension, under a .git or a
\* node_modules directory), and never if it matches one.
Orig_C1 ==
    \A j \in 1..Len(all_files) :
        Past(j) =>
            /\ Announced(j) = (IF RuleExcluded(all_files[j]) THEN 0 ELSE 1)
            /\ Analysed(j) = (IF RuleExcluded(all_files[j]) THEN 0 ELSE 1)

\* C2 as stated: a file that passed the filter and whose response is
\* well-formed JSON with the four required string fields has exactly one
\* record, and the four fields of the record are the parsed values.
Orig_C2 ==
    \A j \in 1..Len(all_files) :
        (Past(j) /\ GotObject(j) /\ FourStrings(j)) =>
            \E k \in DOMAIN analysis_results :
                /\ RecordsFor(j) = {k}
                /\ analysis_results[k] = Parsed(j)

\* C2 as amended: such a file has exactly one record unless the response
\* also carries a truthy "modern" key; old_content, new_content and reason
\* of the record are the parsed values and its path is the enumerated path
\* of the file, whatever path the response carried.
Thm_C2 ==
    \A j \in 1..Len(all_files) :
        (Past(j) /\ GotObject(j) /\ FourStrings(j) /\ ~ModernTruthy(j)) =>
            \E k \in DOMAIN analysis_results :
                /\ RecordsFor(j) = {k}
                /\ analysis_results[k] = [Parsed(j) EXCEPT !.path = all_files[j]]

Witness_C2 ==
    /\ pc = "done"
    /\ \E j \in 1..Len(all_files) :
          /\ GotObject(j) /\ FourStrings(j) /\ ~ModernTruthy(j)
          /\ Parsed(j).path # all_files[j]
          /\ RecordsFor(j) # {}

\* a per-file failure of the kinds C3 lists: the file cannot be read, the
\* remote call raises, the text is not JSON, or the parsed object (not a
\* sentinel) lacks a required field
Failure(j) ==
    /\ Passed(j)
    /\ \/ ~Fate(j).readable
       \/ Fate(j).readable /\ Fate(j).raises
       \/ GotResponse(j) /\ ~Fate(j).text.wellformed
       \/ /\ GotObject(j)
          /\ ~ModernTruthy(j)
          /\ \E f \in RequiredFields : Doc(j).members[f].type = "absent"

Thm_C4 ==
    /\ \A j \in 1..Len(all_files) :
          (Past(j) /\ GotObject(j) /\ ModernTrue(j)) =>
              (RecordsFor(j) = {} /\ DiagnosticsFor(j) = {})
    /\ (pc = "collect" /\ GotObject(i) /\ ModernTrue(i)) =>
          (response = <<>> /\ RecordsFor(i) = {} /\ DiagnosticsFor(i) = {})

Witness_C4 ==
    /\ pc = "done"
    /\ \E j \in 1..Len(all_files) :
          GotObject(j) /\ ModernTrue(j) /\ FourStrings(j)

\* C5 as stated: when a directory met during the enumeration cannot be
\* listed, the run ends in a fatal error: fetch_updates returns no list and
\* main prints no summary.
Orig_C5 ==
    (unreadable \cap DirsOf(disk) # {}) => pc \notin {"report", "done"}

\* C5 as amended: a directory that cannot be listed is skipped silently:
\* no file in it or below it is enumerated, every other file of the disk is
\* enumerated exactly once, and the run goes on to its summary.
Thm_C5 ==
    /\ pc # "start" =>
          \A k \in DOMAIN disk :
              Cardinality({j \in DOMAIN all_files :
                              all_files[j] = EntryPath(directory, disk[k])})
                  = (IF Hidden(disk[k].dir) THEN 0 ELSE 1)
    /\ pc = "done" =>
          \E k \in DOMAIN stdout :
              stdout[k].line \in { "No files were found to be out of date.",
                                   "Total files needing updates" }

Witness_C5 ==
    /\ pc = "done"
    /\ \E k, l \in DOMAIN disk :
          /\ disk[k].dir \in unreadable
          /\ ~Hidden(disk[l].dir)
    /\ Len(analysis_results) >= 1

\* C6: in every state a record is in the list only for a file that passed
\* the filter, was read, and whose response parsed as a JSON object, had
\* the four required string fields and was no sentinel; the record is
\* complete, and the report names no other file.
Thm_C6 ==
    /\ Len(origin) = Len(analysis_results)
    /\ \A k \in DOMAIN origin :
          /\ origin[k] \in 1..Len(all_files)
          /\ Validated(origin[k])
          /\ analysis_results[k].old_content = Parsed(origin[k]).old_content
          /\ analysis_results[k].new_content = Parsed(origin[k]).new_content
          /\ analysis_results[k].reason = Parsed(origin[k]).reason
    /\ \A k \in DOMAIN stdout :
          stdout[k].line = "File" =>
              \E l \in DOMAIN origin :
                  /\ stdout[k].path = analysis_results[l].path
                  /\ Validated(origin[l])

Witness_C6 ==
    /\ pc = "done"
    /\ Len(analysis_results) >= 1
    /\ \E j \in 1..Len(all_files) :
          GotObject(j) /\ ~ModernTruthy(j) /\ ~FourStrings(j)

\* C7: the second run over the same disk with the same responder returns
\* the list the first run returned: same length, same records, same order.
Thm_C7 ==
    (run = 2 /\ pc \in {"report", "done"}) => analysis_results = firstRun

Witness_C7 ==
    /\ run = 2
    /\ pc = "done"
    /\ Len(analysis_results) >= 2

\* the place of a step within the handling of one file
Rank(ev) ==
    CASE ev = "read" -> 1
      [] ev = "call" -> 2
      [] ev = "validate" -> 3
      [] ev = "collect" -> 4

\* C8: the remote model is called exactly once for a file that passed the
\* filter and was read, never for another file and never twice; the steps
\* of a file come in the order read, call, validate, collect, and a file is
\* read only after every earlier file has been collected.
Thm_C8 ==
    /\ \A j \in 1..Len(all_files) :
          /\ CallsFor(j) <= 1
          /\ Past(j) =>
                CallsFor(j) = (IF Passed(j) /\ Fate(j).readable THEN 1 ELSE 0)
    /\ \A k, l \in DOMAIN events :
          k < l =>
              \/ events[k].idx < events[l].idx
              \/ events[k].idx = events[l].idx
                    /\ Rank(events[k].ev) < Rank(events[l].ev)
    /\ \A k, l \in DOMAIN events :
          (events[l].ev = "read" /\ events[k].idx < events[l].idx) =>
              \E m \in 1..(l - 1) :
                  events[m] = [ev |-> "collect", idx |-> events[k].idx]

Witness_C8 ==
    /\ pc = "done"
    /\ \E j, l \in 1..Len(all_files) :
          /\ j < l
          /\ Passed(j) /\ Fate(j).readable /\ Fate(j).raises
          /\ CallsFor(j) = 1
          /\ CallsFor(l) = 1

\* C9: the report shows the validated records and nothing else: for an
\* empty list the "No files" line and no entry; otherwise one File line and
\* one Reason line per record, in list order, and a total that is the
\* length of the list and the number of files whose response validated.
Thm_C9 ==
    pc = "done" =>
        LET files   == SelectSeq(stdout, LAMBDA ln : ln.line = "File")
            reasons == SelectSeq(stdout, LAMBDA ln : ln.line = "Reason")
            totals  == SelectSeq(stdout, LAMBDA ln : ln.line = "Total files needing updates")
            nones   == SelectSeq(stdout, LAMBDA ln :
                           ln.line = "No files were found to be out of date.")
        IN  IF analysis_results = <<>>
            THEN Len(nones) = 1 /\ files = <<>> /\ reasons = <<>> /\ totals = <<>>
            ELSE /\ nones = <<>>
                 /\ Len(files) = Len(analysis_results)
                 /\ Len(reasons) = Len(analysis_results)
                 /\ \A k \in DOMAIN analysis_results :
                       /\ files[k].path = analysis_results[k].path
                       /\ reasons[k].reason = analysis_results[k].reason
                 /\ Len(totals) = 1
                 /\ totals[1].n = Len(analysis_results)
                 /\ totals[1].n =
                       Cardinality({j \in 1..Len(all_files) : Validated(j)})

Witness_C9 ==
    /\ pc = "done"
    /\ Len(analysis_results) >= 1
    /\ \E j \in 1..Len(all_files) : Failure(j)

\* C10: the result list is a subsequence of the enumeration: the path of
\* every record is the enumerated path of the file it came from, not the
\* path the model returned, the records are in enumeration order and no
\* two records have the same path.
Thm_C10 ==
    /\ Len(origin) = Len(analysis_results)
    /\ \A k \in DOMAIN origin :
          /\ origin[k] \in 1..Len(all_files)
          /\ analysis_results[k].path = all_files[origin[k]]
    /\ \A k, l \in DOMAIN origin :
          k < l =>
              /\ origin[k] < origin[l]
              /\ analysis_results[k].path # analysis_results[l].path

Witness_C10 ==
    /\ Len(analysis_results) >= 2
    /\ Parsed(origin[1]).path = Parsed(origin[2]).path

====
